---- MODULE Spec2Model ----
(***************************************************************************)
(* threadslapper: an RSS watcher that opens a discussion thread (and an    *)
(* optional announcement) for every new episode of the configured feeds.   *)
(*                                                                         *)
(* The module models src/src/cogs/RssWatcher.py and the feed settings of   *)
(* src/src/threadslapper/settings.py.  Four specifications share the       *)
(* state:                                                                  *)
(*   Spec          the periodic loop check_rss_feed, one step per call     *)
(*                 that suspends (publish, announce, subscribers)          *)
(*   SpecGate      direct calls of check_rss, with and without the         *)
(*                 episode_number_override argument                        *)
(*   SpecPublish   direct calls of add_text_thread / add_forum_thread      *)
(*   SpecAnnounce  direct calls of create_announcement, interleaved with   *)
(*                 other traffic in the announce channel                   *)
(*                                                                         *)
(* Strings are sequences of character codes; the digits 0..9 stand for     *)
(* themselves.  Platform state is what the discord objects expose to the   *)
(* cog: the threads of each channel and the last message of each channel.  *)
(* A thread created by create_thread is visible in channel.threads from    *)
(* the next read on.                                                       *)
(***************************************************************************)
EXTENDS Integers, Sequences, FiniteSets, TLC

\* ------------------------------------------------------------------ bounds
\* episode numbers a feed document may carry: 0..MaxEpisode
MaxEpisode == 2
\* configured values of Settings.error_count_disable: 0..MaxErrorCountDisable
MaxErrorCountDisable == 1
\* direct publish calls stop once a channel holds this many threads
MaxThreads == 3
\* warnings of a feed the model counts
MaxWarnings == 2

\* ----------------------------------------------------------------- strings
\* " " and ":" of the formatted title
SP == 32
COLON == 58

RECURSIVE Str(_)
\* f"{self.number}" for a non-negative number
Str(n) == IF n < 10 THEN <<n>> ELSE Str(n \div 10) \o <<n % 10>>

startswith(s, p) == Len(s) >= Len(p) /\ SubSeq(s, 1, Len(p)) = p

RECURSIVE lstrip(_)
lstrip(s) == IF s # <<>> /\ Head(s) = SP THEN lstrip(Tail(s)) ELSE s

RECURSIVE rstrip(_)
rstrip(s) == IF s # <<>> /\ s[Len(s)] = SP THEN rstrip(SubSeq(s, 1, Len(s) - 1)) ELSE s

strip(s) == rstrip(lstrip(s))

\* EpisodeData.get_title
get_title(number, title, prefix, override_ep_number) ==
    IF override_ep_number THEN strip(title)
    ELSE IF startswith(title, Str(number)) THEN strip(prefix \o <<SP>> \o title)
    ELSE strip(prefix \o <<SP>> \o Str(number) \o <<COLON, SP>> \o title)

\* ------------------------------------------------------------ the platform
NoChannel == "none"
TextChannels == {"text", "announce"}
ForumChannels == {"forum"}
OtherChannels == {"voice"}
Channels == TextChannels \cup ForumChannels \cup OtherChannels

\* bot.get_channel(id): the channel object, here its type; "None" when the id is
\* None or no channel of that id is visible to the bot
get_channel(id) ==
    IF id \in TextChannels THEN "TextChannel"
    ELSE IF id \in ForumChannels THEN "ForumChannel"
    ELSE IF id \in OtherChannels THEN "VoiceChannel"
    ELSE "None"

NoTitle == <<>>
NoThread == [channel |-> NoChannel, name |-> NoTitle, id |-> 0]
NoMessage == [kind |-> "none", title |-> NoTitle, thread |-> NoThread]

\* ---------------------------------------------------------------- the feed
NoRole == "none"
NoOverride == -1
NoEpisode == [number |-> -1, title |-> NoTitle, has_break |-> FALSE]

\* the raw title a feed entry carries: "F"
RawTitles == {<<70>>}

\* feedparser.parse(rss.rss_feed): the document's entries are empty, or its latest
\* entry carries a number, a title and a description whose markdown has a double
\* line-break or not
EmptyDocument == [entries |-> 0, number |-> 0, title |-> NoTitle, has_break |-> FALSE]
Documents ==
    {EmptyDocument} \cup
    [entries : {1}, number : 0..MaxEpisode, title : RawTitles, has_break : BOOLEAN]

VARIABLES
    error_count_disable,    \* Settings.error_count_disable
    feeds,                  \* RssWatcher.feeds: the configuration of each feed
    current_episode,        \* RssFeedToChannel.current_episode of each feed
    error_count,            \* RssFeedToChannel.error_count of each feed
    threads,                \* the threads of the channels (channel.threads)
    last_message,           \* the last message of each channel
    pc,                     \* where check_rss_feed stands
    fi,                     \* check_rss_feed: the feed of the loop
    ti,                     \* check_rss_feed: the channel pair of the inner loop
    latest_episode,         \* check_rss_feed: local latest_episode
    thread,                 \* check_rss_feed: local thread
    step,                   \* what the last step of check_rss_feed did
    warnings,               \* the 'exceeded error count' warnings logged for each feed
    call,                   \* the last direct call and what it returned
    prev                    \* the direct call before it

vars == <<error_count_disable, feeds, current_episode, error_count, threads,
          last_message, pc, fi, ti, latest_episode, thread, step, warnings, call,
          prev>>

Feeds == 1..2

\* RssFeedToChannel, the fields the loop reads
Feed(prefix, enabled, check, role, channels) ==
    [title_prefix |-> prefix, enabled |-> enabled, override_episode_check |-> check,
     override_episode_prepend_title |-> FALSE, subscriber_role_id |-> role,
     channel_list |-> channels]

Pair(announce, channel) == [announce |-> announce, channel |-> channel]

\* feed.get_channels(override_announce_channel_id, override_channel_id): the ordered
\* (announce channel id, channel id) pairs of the feed
get_channels(feed) == feed.channel_list

\* the configurations the model starts from.  Feed 1 ("A") publishes to a text
\* channel with an announce channel and to a forum, or to a channel the bot does
\* not see, a forum and a voice channel; feed 2 ("B") publishes to the text channel
FeedLists ==
    {<<Feed(<<65>>, TRUE, FALSE, NoRole,
            <<Pair("announce", "text"), Pair(NoChannel, "forum")>>),
       Feed(<<66>>, TRUE, FALSE, NoRole, <<Pair("announce", "text")>>)>>,
     <<Feed(<<65>>, TRUE, TRUE, "role",
            <<Pair("announce", "gone"), Pair("announce", "forum"),
              Pair("text", "voice")>>),
       Feed(<<66>>, FALSE, FALSE, NoRole, <<Pair("announce", "text")>>)>>}

\* what the loop did for a feed: which feed, how its processing stands ("tripped",
\* "disabled", "no_update", "new", "raised", "done"), whether the feed was fetched,
\* the number fetched and the watermark before, whether check_rss returned a
\* snapshot, the title, the threads created, the channel pairs announced,
\* whether a platform call raised and, when the body was left early, the channel
\* pair and the call ("target", "announce", "subscribers") it was left in
NoStep == [feed |-> 0, kind |-> "none", polled |-> FALSE, number |-> -1, stored |-> 0,
           new |-> FALSE, title |-> NoTitle, created |-> {}, announced |-> {},
           failed |-> FALSE, target |-> 0, at |-> "none"]
NoCall == [op |-> "none"]

\* RssWatcher.__init__: without the startup check every watermark is 0; with it
\* check_rss has stored the number of each feed's latest episode, which is above 0
\* (on None the constructor raises)
StartupEpisodes ==
    {[f \in Feeds |-> 0]} \cup [Feeds -> 1..MaxEpisode]

Init ==
    /\ error_count_disable \in 0..MaxErrorCountDisable
    /\ feeds \in FeedLists
    /\ current_episode \in StartupEpisodes
    /\ error_count = [f \in Feeds |-> 0]
    /\ threads = {}
    /\ last_message = [c \in Channels |-> NoMessage]
    /\ pc = "idle"
    /\ fi = 0
    /\ ti = 0
    /\ latest_episode = NoEpisode
    /\ thread = NoThread
    /\ step = NoStep
    /\ warnings = [f \in Feeds |-> 0]
    /\ call = NoCall
    /\ prev = NoCall

\* ------------------------------------------------------------- check_rss
\* RssWatcher._get_latest_episode_data: indexing the entries of an empty document
\* raises IndexError
EpisodeData(document) ==
    [number |-> document.number, title |-> document.title,
     has_break |-> document.has_break]

\* Python's `episode_number_override or rss.current_episode`: None and 0 are falsy
Baseline_ClaimedOverride(episode_number_override, stored) ==
    IF episode_number_override # NoOverride THEN episode_number_override ELSE stored

Baseline(episode_number_override, stored) ==
    IF episode_number_override # NoOverride /\ episode_number_override # 0
    THEN episode_number_override
    ELSE stored

\* RssWatcher.check_rss: what it returns and the feed's current_episode after it
check_rss_EmptyIsNoUpdate(f, document, episode_number_override) ==
    LET current == Baseline(episode_number_override, current_episode[f]) IN
    IF document.entries # 0 /\ document.number > current
    THEN [raised |-> FALSE, ret |-> EpisodeData(document),
          current_episode |-> document.number]
    ELSE [raised |-> FALSE, ret |-> NoEpisode, current_episode |-> current_episode[f]]

check_rss(f, document, episode_number_override) ==
    LET current == Baseline(episode_number_override, current_episode[f]) IN
    IF document.entries = 0
    THEN [raised |-> TRUE, ret |-> NoEpisode, current_episode |-> current_episode[f]]
    ELSE IF document.number > current
    THEN [raised |-> FALSE, ret |-> EpisodeData(document),
          current_episode |-> document.number]
    ELSE [raised |-> FALSE, ret |-> NoEpisode, current_episode |-> current_episode[f]]

Overrides == {NoOverride} \cup 0..MaxEpisode

\* a direct call check_rss(rss=feeds[f], episode_number_override=o)
CallCheckRss ==
    \E f \in Feeds, document \in Documents, o \in Overrides :
        LET r == check_rss(f, document, o) IN
        /\ current_episode' = [current_episode EXCEPT ![f] = r.current_episode]
        /\ call' = [op |-> "check_rss", feed |-> f, stored |-> current_episode[f],
                    override |-> o, entries |-> document.entries,
                    number |-> document.number, raised |-> r.raised, ret |-> r.ret]
        /\ UNCHANGED <<error_count_disable, feeds, warnings,
                       error_count, threads, last_message,
                       pc, fi, ti, latest_episode, thread, step, prev>>

\* direct calls are made on one configuration, with the default threshold behaviour
InitDirect ==
    /\ Init
    /\ error_count_disable = 0
    /\ current_episode = [f \in Feeds |-> 0]
    /\ feeds = <<Feed(<<65>>, TRUE, FALSE, NoRole,
                      <<Pair("announce", "text"), Pair(NoChannel, "forum")>>),
                 Feed(<<66>>, TRUE, FALSE, NoRole, <<Pair("announce", "text")>>)>>

NextGate == CallCheckRss
SpecGate == InitDirect /\ [][NextGate]_vars

\* ---------------------------------------------------------------- publish
ThreadsNamed(channel, title) ==
    {t \in threads : t.channel = channel /\ t.name = title}

\* the Thread that channel.create_thread returns
NewThread(channel, title) ==
    [channel |-> channel, name |-> title,
     id |-> Cardinality(ThreadsNamed(channel, title)) + 1]

\* `override_episode_check or not title in [thread.name for thread in channel.threads]`
MustCreate_IgnoresExisting(channel, title, override_episode_check) == TRUE

MustCreate_IgnoresOverride(channel, title, override_episode_check) ==
    ThreadsNamed(channel, title) = {}

MustCreate(channel, title, override_episode_check) ==
    override_episode_check \/ ThreadsNamed(channel, title) = {}

\* the else branch: the one thread of that name, None when there are several
ExistingThread(channel, title) ==
    IF Cardinality(ThreadsNamed(channel, title)) = 1
    THEN CHOOSE t \in ThreadsNamed(channel, title) : TRUE
    ELSE NoThread

\* the platform calls of add_text_thread, in order; fail names the one that raises
TextFails == {"none", "send", "create_thread", "join", "pin"}
\* the platform calls of add_forum_thread
ForumFails == {"none", "create_thread", "join", "publish", "pin"}

LeadMessage(title) == [kind |-> "lead", title |-> title, thread |-> NoThread]

\* RssWatcher.add_text_thread: the platform state after the call, whether it
\* raised and what it returned
add_text_thread(channel, title, override_episode_check, fail) ==
    IF MustCreate(channel, title, override_episode_check)
    THEN [threads |-> IF fail \in {"send", "create_thread"} THEN threads
                      ELSE threads \cup {NewThread(channel, title)},
          last_message |-> IF fail = "send" THEN last_message
                           ELSE [last_message EXCEPT ![channel] = LeadMessage(title)],
          raised |-> fail # "none",
          ret |-> IF fail = "none" THEN NewThread(channel, title) ELSE NoThread]
    ELSE [threads |-> threads, last_message |-> last_message, raised |-> FALSE,
          ret |-> ExistingThread(channel, title)]

\* RssWatcher.add_forum_thread
add_forum_thread(channel, title, override_episode_check, fail) ==
    IF MustCreate(channel, title, override_episode_check)
    THEN [threads |-> IF fail = "create_thread" THEN threads
                      ELSE threads \cup {NewThread(channel, title)},
          last_message |-> last_message,
          raised |-> fail # "none",
          ret |-> IF fail = "none" THEN NewThread(channel, title) ELSE NoThread]
    ELSE [threads |-> threads, last_message |-> last_message, raised |-> FALSE,
          ret |-> ExistingThread(channel, title)]

\* the titles of the direct calls: "A 1: F" and "A 2: F"
Titles == {get_title(n, <<70>>, <<65>>, FALSE) : n \in 1..2}

PublishCall(op, channel, title, check, r) ==
    /\ r.threads = threads \/ Cardinality(threads) < MaxThreads
    /\ threads' = r.threads
    /\ last_message' = r.last_message
    /\ call' = [op |-> op, channel |-> channel, title |-> title, check |-> check,
                before |-> ThreadsNamed(channel, title), raised |-> r.raised,
                ret |-> r.ret]
    /\ prev' = call
    /\ UNCHANGED <<error_count_disable, feeds, warnings, current_episode, error_count,
                   pc, fi, ti, latest_episode, thread, step>>

\* a direct call add_text_thread(channel, title, ..., override_episode_check)
CallAddTextThread ==
    \E title \in Titles, check \in BOOLEAN, fail \in TextFails :
        PublishCall("publish", "text", title, check,
                    add_text_thread("text", title, check, fail))

\* a direct call add_forum_thread(channel, title, ..., override_episode_check)
CallAddForumThread ==
    \E title \in Titles, check \in BOOLEAN, fail \in ForumFails :
        PublishCall("publish", "forum", title, check,
                    add_forum_thread("forum", title, check, fail))

NextPublish == CallAddTextThread \/ CallAddForumThread
SpecPublish == InitDirect /\ [][NextPublish]_vars

\* ----------------------------------------------------------- announcement
\* `announce_title in last_announcement_message.content`: announce_title is a fixed
\* preamble around the title, so only an announcement of the same title contains it
HasMarker_AnyAnnouncement(message, announcement) == message.kind = "announce"

HasMarker(message, announcement) ==
    message.kind = "announce" /\ message.title = announcement

\* announce_message: announce_title followed by the jump url of the thread
AnnounceMessage(announcement, message) ==
    [kind |-> "announce", title |-> announcement, thread |-> message]

\* a message without the preamble, sent by somebody else
OtherMessage == [kind |-> "other", title |-> NoTitle, thread |-> NoThread]

\* the platform calls of create_announcement, in order
AnnounceFails == {"none", "fetch_message", "send"}

\* RssWatcher.create_announcement on the channel bot.get_channel(announce_channel):
\* the last messages after the call, whether it raised, how many messages it sent
create_announcement(announce_channel, announcement, message, fail) ==
    LET quiet == [last_message |-> last_message, raised |-> FALSE, sent |-> 0]
        failed == [last_message |-> last_message, raised |-> TRUE, sent |-> 0]
    IN
    IF get_channel(announce_channel) = "None" THEN quiet
    ELSE IF get_channel(announce_channel) = "TextChannel"
    THEN IF last_message[announce_channel] # NoMessage /\ fail = "fetch_message"
         THEN failed
         ELSE IF /\ last_message[announce_channel] # NoMessage
                 /\ HasMarker(last_message[announce_channel], announcement)
         THEN quiet
         ELSE IF fail = "send" THEN failed
         ELSE [last_message |-> [last_message EXCEPT ![announce_channel] =
                                     AnnounceMessage(announcement, message)],
               raised |-> FALSE, sent |-> 1]
    ELSE quiet

\* a direct call create_announcement(announce_channel, ..., announcement, message)
CallCreateAnnouncement ==
    \E channel \in {"announce", "forum", NoChannel}, title \in Titles,
       fail \in AnnounceFails :
        LET message == [channel |-> "text", name |-> title, id |-> 1]
            r == create_announcement(channel, title, message, fail) IN
        /\ last_message' = r.last_message
        /\ call' = [op |-> "announce", channel |-> channel, title |-> title,
                    before |-> IF channel \in Channels THEN last_message[channel]
                               ELSE NoMessage,
                    raised |-> r.raised, sent |-> r.sent]
        /\ prev' = call
        /\ UNCHANGED <<error_count_disable, feeds, warnings,
                       current_episode, error_count,
                       threads, pc, fi, ti, latest_episode, thread, step>>

\* somebody else posts in the announce channel
OtherTraffic ==
    /\ last_message' = [last_message EXCEPT !["announce"] = OtherMessage]
    /\ UNCHANGED <<error_count_disable, feeds, warnings, current_episode, error_count,
                   threads, pc, fi, ti, latest_episode, thread, step, call, prev>>

NextAnnounce == CallCreateAnnouncement \/ OtherTraffic
SpecAnnounce == InitDirect /\ [][NextAnnounce]_vars

\* --------------------------------------------------------- check_rss_feed
\* the channel pairs of the feed of the loop
Targets == get_channels(feeds[fi])

\* title = latest_episode.get_title(feed.title_prefix, feed.override_episode_prepend_title)
Title(f, episode) ==
    get_title(episode.number, episode.title, feeds[f].title_prefix,
              feeds[f].override_episode_prepend_title)

\* EpisodeData.get_description(truncate): desc.index("\n\n") raises ValueError when
\* the description has no double line-break
get_description_raises(episode, truncate) == truncate /\ ~episode.has_break

\* the loop goes on with the next feed; the locals of the body are dead
NextFeed ==
    /\ pc' = "feed"
    /\ fi' = fi + 1
    /\ ti' = 0
    /\ latest_episode' = NoEpisode
    /\ thread' = NoThread

\* `except Exception as e: feed.error_count += 1`, then the next feed
except_Exception_AbortsTick ==
    /\ error_count' = [error_count EXCEPT ![fi] = @ + 1]
    /\ pc' = "idle"
    /\ fi' = 0
    /\ ti' = 0
    /\ latest_episode' = NoEpisode
    /\ thread' = NoThread

except_Exception ==
    /\ error_count' = [error_count EXCEPT ![fi] = @ + 1]
    /\ NextFeed

\* `feed.error_count > settings.error_count_disable`
Tripped_AtThreshold(f) == error_count[f] >= error_count_disable

Tripped_ChecksFirstFeed(f) == error_count[1] > error_count_disable

Tripped(f) == error_count[f] > error_count_disable

\* log.warning(...): one more line in the log; the model stops counting at
\* MaxWarnings
log_warning(count) == IF count < MaxWarnings THEN count + 1 ELSE count

\* the scheduler starts a run of check_rss_feed: tasks.loop awaits the run before it
\* sleeps and starts the next one
TickStart_WhileRunning ==
    /\ pc \in {"idle", "target", "announce", "subscribers"}
    /\ pc' = "feed"
    /\ fi' = 1
    /\ step' = NoStep
    /\ UNCHANGED <<error_count_disable, feeds, warnings, current_episode, error_count,
                   threads, last_message, ti, latest_episode, thread, call, prev>>

TickStart ==
    /\ pc = "idle"
    /\ pc' = "feed"
    /\ fi' = 1
    /\ step' = NoStep
    /\ UNCHANGED <<error_count_disable, feeds, warnings,
                   current_episode, error_count, threads,
                   last_message, ti, latest_episode, thread, call, prev>>

\* `for feed in self.feeds` is exhausted: the run returns
TickEnd ==
    /\ pc = "feed"
    /\ fi > Len(feeds)
    /\ pc' = "idle"
    /\ fi' = 0
    /\ step' = NoStep
    /\ UNCHANGED <<error_count_disable, feeds, warnings,
                   current_episode, error_count, threads,
                   last_message, ti, latest_episode, thread, call, prev>>

\* the feed has exceeded the error count: warning, continue
SkipTripped ==
    /\ pc = "feed"
    /\ fi <= Len(feeds)
    /\ Tripped(fi)
    /\ warnings' = [warnings EXCEPT ![fi] = log_warning(@)]
    /\ NextFeed
    /\ step' = [NoStep EXCEPT !.feed = fi, !.kind = "tripped"]
    /\ UNCHANGED <<error_count_disable, feeds, current_episode, error_count, threads,
                   last_message, call, prev>>

\* the feed is disabled: continue
SkipDisabled ==
    /\ pc = "feed"
    /\ fi <= Len(feeds)
    /\ ~Tripped(fi)
    /\ ~feeds[fi].enabled
    /\ NextFeed
    /\ step' = [NoStep EXCEPT !.feed = fi, !.kind = "disabled"]
    /\ UNCHANGED <<error_count_disable, feeds, warnings,
                   current_episode, error_count, threads,
                   last_message, call, prev>>

\* the body up to its first await: check_rss, the title and the two embeds
PollFeed ==
    /\ pc = "feed"
    /\ fi <= Len(feeds)
    /\ ~Tripped(fi)
    /\ feeds[fi].enabled
    /\ \E document \in Documents :
        LET r == check_rss(fi, document, NoOverride)
            polled == [NoStep EXCEPT !.feed = fi, !.polled = TRUE,
                                     !.stored = current_episode[fi],
                                     !.number = IF document.entries = 0 THEN -1
                                                ELSE document.number]
        IN
        /\ current_episode' = [current_episode EXCEPT ![fi] = r.current_episode]
        /\ IF r.raised
           THEN /\ except_Exception
                /\ step' = [polled EXCEPT !.kind = "raised"]
           ELSE IF r.ret = NoEpisode
           THEN /\ NextFeed
                /\ step' = [polled EXCEPT !.kind = "no_update"]
                /\ UNCHANGED error_count
           ELSE IF get_description_raises(r.ret, TRUE)
           THEN /\ except_Exception
                /\ step' = [polled EXCEPT !.kind = "raised", !.new = TRUE,
                                          !.title = Title(fi, r.ret)]
           ELSE /\ pc' = "target"
                /\ ti' = 1
                /\ latest_episode' = r.ret
                /\ thread' = NoThread
                /\ step' = [polled EXCEPT !.kind = "new", !.new = TRUE,
                                          !.title = Title(fi, r.ret)]
                /\ UNCHANGED <<fi, error_count>>
    /\ UNCHANGED <<error_count_disable, feeds, warnings,
                   threads, last_message, call, prev>>

\* the end of the body for one channel pair: the subscribers when a role is
\* configured, else the next pair
AfterAnnounce ==
    IF feeds[fi].subscriber_role_id # NoRole
    THEN pc' = "subscribers" /\ UNCHANGED ti
    ELSE pc' = "target" /\ ti' = ti + 1

\* `if thread:` create_announcement
AfterPublish(new_thread) ==
    IF new_thread # NoThread THEN pc' = "announce" /\ UNCHANGED ti ELSE AfterAnnounce

\* the inner loop is exhausted: the feed is done
TargetsDone ==
    /\ pc = "target"
    /\ ti > Len(Targets)
    /\ NextFeed
    /\ step' = [step EXCEPT !.kind = "done"]
    /\ UNCHANGED <<error_count_disable, feeds, warnings,
                   current_episode, error_count, threads,
                   last_message, call, prev>>

\* bot.get_channel(_channel) is None: continue
ChannelNotFound_Breaks ==
    /\ pc = "target"
    /\ ti <= Len(Targets)
    /\ get_channel(Targets[ti].channel) = "None"
    /\ ti' = Len(Targets) + 1
    /\ UNCHANGED <<error_count_disable, feeds, warnings,
                   current_episode, error_count, threads,
                   last_message, pc, fi, latest_episode, thread, step, call, prev>>

ChannelNotFound ==
    /\ pc = "target"
    /\ ti <= Len(Targets)
    /\ get_channel(Targets[ti].channel) = "None"
    /\ ti' = ti + 1
    /\ UNCHANGED <<error_count_disable, feeds, warnings,
                   current_episode, error_count, threads,
                   last_message, pc, fi, latest_episode, thread, step, call, prev>>

\* what a publish call leaves behind in the loop
Published(r) ==
    /\ threads' = r.threads
    /\ last_message' = r.last_message
    /\ IF r.raised
       THEN /\ except_Exception
            /\ step' = [step EXCEPT !.kind = "raised", !.failed = TRUE,
                                    !.created = @ \cup (r.threads \ threads),
                                    !.target = ti, !.at = "target"]
       ELSE /\ thread' = r.ret
            /\ AfterPublish(r.ret)
            /\ step' = [step EXCEPT !.created = @ \cup (r.threads \ threads)]
            /\ UNCHANGED <<fi, latest_episode, error_count>>
    /\ UNCHANGED <<error_count_disable, feeds, warnings, current_episode, call, prev>>

\* the channel is a TextChannel: thread = await self.add_text_thread(...)
PublishText ==
    /\ pc = "target"
    /\ ti <= Len(Targets)
    /\ get_channel(Targets[ti].channel) = "TextChannel"
    /\ \E fail \in TextFails :
        Published(add_text_thread(Targets[ti].channel, Title(fi, latest_episode),
                                  feeds[fi].override_episode_check, fail))

\* the channel is a ForumChannel: thread = await self.add_forum_thread(...)
PublishForum ==
    /\ pc = "target"
    /\ ti <= Len(Targets)
    /\ get_channel(Targets[ti].channel) = "ForumChannel"
    /\ \E fail \in ForumFails :
        Published(add_forum_thread(Targets[ti].channel, Title(fi, latest_episode),
                                   feeds[fi].override_episode_check, fail))

\* the channel is neither: thread keeps the value it has
PublishNothing ==
    /\ pc = "target"
    /\ ti <= Len(Targets)
    /\ get_channel(Targets[ti].channel) = "VoiceChannel"
    /\ AfterPublish(thread)
    /\ UNCHANGED <<error_count_disable, feeds, warnings,
                   current_episode, error_count, threads,
                   last_message, fi, latest_episode, thread, step, call, prev>>

\* await self.create_announcement(announce_channel, ..., announcement=title, message=thread)
Announce ==
    /\ pc = "announce"
    /\ \E fail \in AnnounceFails :
        LET r == create_announcement(Targets[ti].announce, Title(fi, latest_episode),
                                     thread, fail) IN
        /\ last_message' = r.last_message
        /\ IF r.raised
           THEN /\ except_Exception
                /\ step' = [step EXCEPT !.kind = "raised", !.failed = TRUE,
                                        !.target = ti, !.at = "announce"]
           ELSE /\ AfterAnnounce
                /\ step' = [step EXCEPT !.announced =
                                IF r.sent = 1 THEN @ \cup {ti} ELSE @]
                /\ UNCHANGED <<fi, latest_episode, thread, error_count>>
    /\ UNCHANGED <<error_count_disable, feeds, warnings,
                   current_episode, threads, call, prev>>

\* `thread.guild.get_role(role)` and `await thread.add_user(member)`: with a role
\* configured and thread None the attribute access raises AttributeError
Subscribers ==
    /\ pc = "subscribers"
    /\ \E fail \in {"none", "add_user"} :
        IF thread = NoThread
        THEN /\ except_Exception
             /\ step' = [step EXCEPT !.kind = "raised", !.target = ti,
                                     !.at = "subscribers"]
        ELSE IF fail = "add_user"
        THEN /\ except_Exception
             /\ step' = [step EXCEPT !.kind = "raised", !.failed = TRUE,
                                     !.target = ti, !.at = "subscribers"]
        ELSE /\ pc' = "target"
             /\ ti' = ti + 1
             /\ UNCHANGED <<fi, latest_episode, thread, error_count, step>>
    /\ UNCHANGED <<error_count_disable, feeds, warnings,
                   current_episode, threads, last_message,
                   call, prev>>

\* asyncio.CancelledError is thrown into the run at the await it is suspended in:
\* it is not an Exception, so the handler of the feed does not see it and the run
\* and the loop end there
Cancelled(at) ==
    /\ pc' = "stopped"
    /\ step' = [step EXCEPT !.kind = "cancelled", !.target = ti, !.at = at,
                            !.created = @ \cup (threads' \ threads)]
    /\ UNCHANGED <<error_count_disable, feeds, warnings, current_episode, error_count,
                   fi, ti, latest_episode, thread, call, prev>>

\* RssWatcher.cog_unload: self.check_rss_feed.cancel().  The loop is cancelled
\* while it sleeps between two runs, or while the run is suspended in an await of
\* add_text_thread, add_forum_thread, create_announcement or thread.add_user; the
\* platform calls before that await have taken effect
cog_unload ==
    \/ /\ pc = "idle"
       /\ pc' = "stopped"
       /\ UNCHANGED <<error_count_disable, feeds, warnings, current_episode,
                      error_count, threads, last_message, fi, ti, latest_episode,
                      thread, step, call, prev>>
    \/ /\ pc = "target"
       /\ ti <= Len(Targets)
       /\ get_channel(Targets[ti].channel) = "TextChannel"
       /\ \E fail \in TextFails \ {"none"} :
           LET r == add_text_thread(Targets[ti].channel, Title(fi, latest_episode),
                                    feeds[fi].override_episode_check, fail) IN
           /\ r.raised
           /\ threads' = r.threads
           /\ last_message' = r.last_message
       /\ Cancelled("target")
    \/ /\ pc = "target"
       /\ ti <= Len(Targets)
       /\ get_channel(Targets[ti].channel) = "ForumChannel"
       /\ \E fail \in ForumFails \ {"none"} :
           LET r == add_forum_thread(Targets[ti].channel, Title(fi, latest_episode),
                                     feeds[fi].override_episode_check, fail) IN
           /\ r.raised
           /\ threads' = r.threads
           /\ last_message' = r.last_message
       /\ Cancelled("target")
    \/ /\ pc = "announce"
       /\ \E fail \in AnnounceFails :
           LET r == create_announcement(Targets[ti].announce,
                                        Title(fi, latest_episode), thread, fail) IN
           /\ r.raised \/ r.sent = 1
           /\ last_message' = r.last_message
       /\ threads' = threads
       /\ Cancelled("announce")
    \/ /\ pc = "subscribers"
       /\ thread # NoThread
       /\ UNCHANGED <<threads, last_message>>
       /\ Cancelled("subscribers")

Next ==
    \/ cog_unload
    \/ TickStart
    \/ TickEnd
    \/ SkipTripped
    \/ SkipDisabled
    \/ PollFeed
    \/ TargetsDone
    \/ ChannelNotFound
    \/ PublishText
    \/ PublishForum
    \/ PublishNothing
    \/ Announce
    \/ Subscribers

Spec == Init /\ [][Next]_vars

\* ------------------------------------------- threads that exist already
\* the loop on a platform where the text channel already holds two threads with
\* the title of feed A's first episode (channel.threads is platform state: left by
\* an earlier run with override_episode_check, or opened by users).  Feed A has a
\* subscriber role and the dedup check on
InitExisting ==
    /\ error_count_disable = MaxErrorCountDisable
    /\ feeds = <<Feed(<<65>>, TRUE, FALSE, "role",
                      <<Pair("announce", "gone"), Pair("announce", "text"),
                        Pair(NoChannel, "forum"), Pair("text", "voice")>>),
                 Feed(<<66>>, FALSE, FALSE, NoRole, <<Pair("announce", "text")>>)>>
    /\ current_episode = [f \in Feeds |-> 0]
    /\ error_count = [f \in Feeds |-> 0]
    /\ threads = {[channel |-> "text", name |-> get_title(1, <<70>>, <<65>>, FALSE),
                   id |-> n] : n \in 1..2}
    /\ last_message = [c \in Channels |-> NoMessage]
    /\ pc = "idle"
    /\ fi = 0
    /\ ti = 0
    /\ latest_episode = NoEpisode
    /\ thread = NoThread
    /\ step = NoStep
    /\ warnings = [f \in Feeds |-> 0]
    /\ call = NoCall
    /\ prev = NoCall

SpecExisting == InitExisting /\ [][Next]_vars

\* ---------------------------------------------------------------- startup
\* before RssWatcher(bot) is constructed: every feed has the defaults of
\* RssFeedToChannel (current_episode = 0, error_count = 0)
InitStartup ==
    /\ error_count_disable \in 0..MaxErrorCountDisable
    /\ feeds \in FeedLists
    /\ current_episode = [f \in Feeds |-> 0]
    /\ error_count = [f \in Feeds |-> 0]
    /\ threads = {}
    /\ last_message = [c \in Channels |-> NoMessage]
    /\ pc = "init"
    /\ fi = 0
    /\ ti = 0
    /\ latest_episode = NoEpisode
    /\ thread = NoThread
    /\ step = NoStep
    /\ warnings = [f \in Feeds |-> 0]
    /\ call = NoCall
    /\ prev = NoCall

\* RssWatcher.__init__ up to `if settings.startup_latest_episode_check`: with the
\* check the constructor goes through the feeds, without it it returns
RssWatcher_init ==
    /\ pc = "init"
    /\ \E startup_latest_episode_check \in BOOLEAN :
        IF startup_latest_episode_check
        THEN pc' = "startup" /\ fi' = 1
        ELSE pc' = "constructed" /\ fi' = 0
    /\ UNCHANGED <<error_count_disable, feeds, warnings, current_episode, error_count,
                   threads, last_message, ti, latest_episode, thread, step, call, prev>>

\* one round of `for feed in self.feeds` in the constructor: check_rss(rss=feed);
\* its IndexError and the RuntimeError raised on None leave the constructor
StartupCheck_IgnoresEmpty ==
    /\ pc = "startup"
    /\ fi <= Len(feeds)
    /\ \E document \in Documents :
        LET r == check_rss(fi, document, NoOverride)
            checked == [NoStep EXCEPT !.feed = fi, !.polled = TRUE,
                                      !.stored = current_episode[fi],
                                      !.number = IF document.entries = 0 THEN -1
                                                 ELSE document.number]
        IN
        /\ current_episode' = [current_episode EXCEPT ![fi] = r.current_episode]
        /\ pc' = "startup"
        /\ fi' = fi + 1
        /\ step' = [checked EXCEPT !.kind = "seeded"]
    /\ UNCHANGED <<error_count_disable, feeds, warnings, error_count, threads,
                   last_message, ti, latest_episode, thread, call, prev>>

StartupCheck ==
    /\ pc = "startup"
    /\ fi <= Len(feeds)
    /\ \E document \in Documents :
        LET r == check_rss(fi, document, NoOverride)
            checked == [NoStep EXCEPT !.feed = fi, !.polled = TRUE,
                                      !.stored = current_episode[fi],
                                      !.number = IF document.entries = 0 THEN -1
                                                 ELSE document.number]
        IN
        /\ current_episode' = [current_episode EXCEPT ![fi] = r.current_episode]
        /\ IF r.raised \/ r.ret = NoEpisode
           THEN /\ pc' = "crashed"
                /\ step' = [checked EXCEPT !.kind = "fatal"]
                /\ UNCHANGED fi
           ELSE /\ pc' = "startup"
                /\ fi' = fi + 1
                /\ step' = [checked EXCEPT !.kind = "seeded"]
    /\ UNCHANGED <<error_count_disable, feeds, warnings, error_count, threads,
                   last_message, ti, latest_episode, thread, call, prev>>

\* the loop of the constructor is exhausted: the cog is constructed
StartupDone ==
    /\ pc = "startup"
    /\ fi > Len(feeds)
    /\ pc' = "constructed"
    /\ fi' = 0
    /\ step' = NoStep
    /\ UNCHANGED <<error_count_disable, feeds, warnings, current_episode, error_count,
                   threads, last_message, ti, latest_episode, thread, call, prev>>

\* rsswatcher.check_rss() as on_ready calls it: the required parameter rss is not
\* passed, so the call raises TypeError before the body of check_rss runs
check_rss_without_rss == [raised |-> TRUE, ret |-> NoEpisode]

\* the bot becomes ready: the platform dispatches the ready event to on_ready
ready ==
    /\ pc = "constructed"
    /\ pc' = "ready"
    /\ UNCHANGED <<error_count_disable, feeds, warnings, current_episode, error_count,
                   threads, last_message, fi, ti, latest_episode, thread, step, call,
                   prev>>

\* discordbot.on_ready on the constructed cog: the first-time check, then
\* check_rss_feed.start(); an exception is logged and raised again
on_ready ==
    /\ pc = "ready"
    /\ LET new_episode == check_rss_without_rss IN
       IF new_episode.raised \/ new_episode.ret = NoEpisode
       THEN pc' = "ready_failed"
       ELSE pc' = "idle"
    /\ step' = [NoStep EXCEPT !.kind = "ready"]
    /\ UNCHANGED <<error_count_disable, feeds, warnings, current_episode, error_count,
                   threads, last_message, fi, ti, latest_episode, thread, call, prev>>

NextReady ==
    \/ RssWatcher_init
    \/ StartupCheck
    \/ StartupDone
    \/ ready
    \/ on_ready

SpecReady == InitStartup /\ [][NextReady]_vars

\* check_rss_feed.start() called on the constructed cog, the call on_ready is
\* written to make: the loop is armed
start ==
    /\ pc = "constructed"
    /\ pc' = "idle"
    /\ UNCHANGED <<error_count_disable, feeds, warnings, current_episode, error_count,
                   threads, last_message, fi, ti, latest_episode, thread, step, call,
                   prev>>

NextStartup ==
    \/ RssWatcher_init
    \/ StartupCheck
    \/ StartupDone
    \/ start
    \/ Next

SpecStartup == InitStartup /\ [][NextStartup]_vars

\* the state a direct call of a pure function starts from: the input waits in call
InitInput(input) ==
    /\ error_count_disable = 0
    /\ feeds = <<Feed(<<65>>, TRUE, FALSE, NoRole,
                      <<Pair("announce", "text"), Pair(NoChannel, "forum")>>),
                 Feed(<<66>>, TRUE, FALSE, NoRole, <<Pair("announce", "text")>>)>>
    /\ current_episode = [f \in Feeds |-> 0]
    /\ error_count = [f \in Feeds |-> 0]
    /\ threads = {}
    /\ last_message = [c \in Channels |-> NoMessage]
    /\ pc = "idle"
    /\ fi = 0
    /\ ti = 0
    /\ latest_episode = NoEpisode
    /\ thread = NoThread
    /\ step = NoStep
    /\ warnings = [f \in Feeds |-> 0]
    /\ call = input
    /\ prev = NoCall

\* the call returns: only call and prev change
Returns(result) ==
    /\ call' = result
    /\ prev' = call
    /\ UNCHANGED <<error_count_disable, feeds, warnings, current_episode, error_count,
                   threads, last_message, pc, fi, ti, latest_episode, thread, step>>

\* ------------------------------------------------------ get_channels_list
\* the entries of the configuration file a run may read: at most MaxEntries
MaxEntries == 3

\* an entry of the yaml mapping, the two keys that are validated: channel_id
\* (-1 when the key is missing) and rss_url ("" when missing, " ", "u")
Entries == [channel_id : {-1, 7}, rss_url : {<<>>, <<SP>>, <<117>>}]

ConfigFiles == UNION {[1..n -> Entries] : n \in 0..MaxEntries}

\* validate_channel_id and validate_rss_feed: RssFeedToChannel(...) raises a
\* ValidationError unless both hold
Validates(entry) == entry.channel_id > 0 /\ strip(entry.rss_url) # <<>>

\* `for key, value in obj.items()` inside `try`: the first entry that does not
\* validate ends the loop in `except Exception`, which logs the error
RECURSIVE LoadEntries(_, _, _)
LoadEntries(obj, i, loaded) ==
    IF i > Len(obj) THEN loaded
    ELSE IF Validates(obj[i])
    THEN LoadEntries(obj, i + 1,
                     Append(loaded, [title |-> i, channel_id |-> obj[i].channel_id,
                                     rss_feed |-> strip(obj[i].rss_url)]))
    ELSE loaded

\* Settings.get_channels_list: `return feeds` is reached on every path
get_channels_list(obj) == [raised |-> FALSE, ret |-> LoadEntries(obj, 1, <<>>)]

CallGetChannelsList ==
    /\ call.op = "config"
    /\ LET r == get_channels_list(call.obj) IN
       Returns([op |-> "get_channels_list", obj |-> call.obj, raised |-> r.raised,
                ret |-> r.ret])

InitConfig == \E obj \in ConfigFiles : InitInput([op |-> "config", obj |-> obj])
SpecConfig == InitConfig /\ [][CallGetChannelsList]_vars

\* -------------------------------------------------------------- get_title
\* "Foo", "Episode 12: Foo", "12: Foo", "12 Foo", "Episode 1", "2"
EpisodeTitles ==
    {<<70, 111, 111>>,
     <<69, 112, 105, 115, 111, 100, 101, SP, 1, 2, COLON, SP, 70, 111, 111>>,
     <<1, 2, COLON, SP, 70, 111, 111>>,
     <<1, 2, SP, 70, 111, 111>>,
     <<69, 112, 105, 115, 111, 100, 101, SP, 1>>,
     <<2>>}

\* "" and "Show"
TitlePrefixes == {<<>>, <<83, 104, 111, 119>>}

EpisodeNumbers == {1, 2, 12}

TitleInputs ==
    [op : {"title"}, number : EpisodeNumbers, title : EpisodeTitles,
     prefix : TitlePrefixes, override_ep_number : BOOLEAN]

CallGetTitle ==
    /\ call.op = "title"
    /\ Returns([op |-> "get_title", number |-> call.number, title |-> call.title,
                prefix |-> call.prefix, override_ep_number |-> call.override_ep_number,
                ret |-> get_title(call.number, call.title, call.prefix,
                                  call.override_ep_number)])

InitTitle == \E input \in TitleInputs : InitInput(input)
SpecTitle == InitTitle /\ [][CallGetTitle]_vars

\* -------------------------------------------------------- get_description
\* `if len(desc) > 2000` and `desc[:1997]`
DescriptionLimit == 2000
DescriptionCut == 1997
\* "\n" and "."
NL == 10
DOT == 46

\* the positions at which desc has "\n\n"
Breaks(desc) == {i \in 1..(Len(desc) - 1) : desc[i] = NL /\ desc[i + 1] = NL}

\* desc.index("\n\n"), counted from 1
index(desc) == CHOOSE i \in Breaks(desc) : \A j \in Breaks(desc) : i <= j

\* EpisodeData.get_description on desc = md(self.description)
get_description_CutsAtLimit(desc, truncate) ==
    IF truncate
    THEN IF Breaks(desc) = {}
         THEN [raised |-> TRUE, ret |-> <<>>]
         ELSE [raised |-> FALSE, ret |-> SubSeq(desc, 1, index(desc) - 1)]
    ELSE IF Len(desc) > DescriptionLimit
    THEN [raised |-> FALSE,
          ret |-> SubSeq(desc, 1, DescriptionLimit) \o <<DOT, DOT, DOT>>]
    ELSE [raised |-> FALSE, ret |-> desc]

get_description(desc, truncate) ==
    IF truncate
    THEN IF Breaks(desc) = {}
         THEN [raised |-> TRUE, ret |-> <<>>]
         ELSE [raised |-> FALSE, ret |-> SubSeq(desc, 1, index(desc) - 1)]
    ELSE IF Len(desc) > DescriptionLimit
    THEN [raised |-> FALSE,
          ret |-> SubSeq(desc, 1, DescriptionCut) \o <<DOT, DOT, DOT>>]
    ELSE [raised |-> FALSE, ret |-> desc]

\* the converted descriptions of the direct calls: n characters "x" with "\n\n"
\* at the positions of at
Description(n, at) ==
    [i \in 1..n |-> IF i \in at \/ (i - 1) \in at THEN NL ELSE 120]

DescriptionLengths ==
    {0, 1, 3, 5} \cup {DescriptionLimit + k : k \in {-4, -3, -1, 0, 1, 4}}

BreakPositions == {1, 3, DescriptionCut, DescriptionLimit + 2}

Descriptions ==
    UNION {{Description(n, at) : at \in SUBSET {b \in BreakPositions : b < n}} :
              n \in DescriptionLengths}

CallGetDescription ==
    /\ call.op = "description"
    /\ LET r == get_description(call.desc, call.truncate) IN
       Returns([op |-> "get_description", desc |-> call.desc,
                truncate |-> call.truncate, raised |-> r.raised, ret |-> r.ret])

InitDescription ==
    \E desc \in Descriptions, truncate \in BOOLEAN :
        InitInput([op |-> "description", desc |-> desc, truncate |-> truncate])
SpecDescription == InitDescription /\ [][CallGetDescription]_vars

\* C1: check_rss returns the snapshot if and only if the extracted number is greater
\* than the baseline, the baseline being the override whenever one is provided (0
\* included) and the stored watermark otherwise.
C1_SnapshotIffAboveBaseline ==
    (call.op = "check_rss" /\ ~call.raised) =>
        ((call.ret # NoEpisode) <=>
            (call.number > Baseline_ClaimedOverride(call.override, call.stored)))

\* C2: with or without an override, a call of check_rss that returns a snapshot
\* strictly increases the watermark to the extracted number and a call that
\* returns NONE leaves it unchanged, so the watermark never decreases.
C2_WatermarkNeverDecreases ==
    (call.op = "check_rss" /\ ~call.raised) =>
        IF call.ret # NoEpisode
        THEN /\ current_episode[call.feed] = call.number
             /\ current_episode[call.feed] > call.stored
        ELSE current_episode[call.feed] = call.stored

\* two direct publish calls in succession on the same channel with the same title
SameTitleTwice ==
    /\ prev.op = "publish"
    /\ call.op = "publish"
    /\ prev.channel = call.channel
    /\ prev.title = call.title

\* C3 (as claimed): two publish calls in succession with the same title and
\* override_episode_check=false create at most one thread in total, and the second
\* call creates nothing and returns the handle of the existing thread of that title.
C3_SecondCallReturnsExisting ==
    (SameTitleTwice /\ ~prev.check /\ ~call.check /\ ~prev.raised /\ ~call.raised) =>
        /\ Cardinality(ThreadsNamed(call.channel, call.title))
               <= Cardinality(prev.before) + 1
        /\ ThreadsNamed(call.channel, call.title) = call.before
        /\ call.ret \in ThreadsNamed(call.channel, call.title)

\* C3 (amended): two publish calls in succession with the same title and
\* override_episode_check=false create at most one thread in total; when both
\* return, the second creates nothing and returns the existing thread of that title
\* if exactly one thread has it, and NONE if several have it.
C3_SecondCallIdempotent ==
    (SameTitleTwice /\ ~prev.check /\ ~call.check) =>
        /\ Cardinality(ThreadsNamed(call.channel, call.title))
               <= Cardinality(prev.before) + 1
        /\ (~prev.raised /\ ~call.raised) =>
               /\ ThreadsNamed(call.channel, call.title) = call.before
               /\ call.before # {}
               /\ IF Cardinality(call.before) = 1
                  THEN call.ret \in call.before
                  ELSE call.ret = NoThread

\* the first call created the thread and the second returned it
C3_Witness ==
    /\ SameTitleTwice /\ ~prev.check /\ ~call.check /\ ~prev.raised /\ ~call.raised
    /\ prev.before = {}
    /\ call.ret = prev.ret
    /\ call.ret \in threads

\* C4: with override_episode_check=true a publish call that returns has created a
\* new thread whatever threads exist and returns it, so two calls with the same
\* title leave two distinct threads of that title.
C4_OverrideAlwaysCreates ==
    /\ (call.op = "publish" /\ call.check /\ ~call.raised) =>
           /\ call.ret \notin call.before
           /\ ThreadsNamed(call.channel, call.title) = call.before \cup {call.ret}
    /\ (SameTitleTwice /\ prev.check /\ call.check /\ ~prev.raised /\ ~call.raised) =>
           /\ prev.ret # call.ret
           /\ {prev.ret, call.ret} \subseteq ThreadsNamed(call.channel, call.title)

C4_Witness ==
    /\ SameTitleTwice /\ prev.check /\ call.check /\ ~prev.raised /\ ~call.raised
    /\ Cardinality(ThreadsNamed(call.channel, call.title)) >= 2

\* C10: create_announcement on a text announce channel sends exactly one message
\* unless the most recent message of the channel contains the marker of the same
\* announcement title, and then sends nothing; without an announce channel it sends
\* nothing; no message but the most recent one is consulted.
C10_AnnounceUnlessLastHasMarker ==
    (call.op = "announce" /\ ~call.raised) =>
        /\ call.sent = IF /\ get_channel(call.channel) = "TextChannel"
                          /\ ~(/\ call.before.kind = "announce"
                                /\ call.before.title = call.title)
                       THEN 1 ELSE 0
        /\ call.channel = NoChannel => call.sent = 0

\* the same announcement is sent a second time because another message came
\* between the two
C10_Witness ==
    /\ prev.op = "announce" /\ call.op = "announce"
    /\ prev.channel = "announce" /\ call.channel = "announce"
    /\ prev.title = call.title
    /\ prev.sent = 1 /\ call.sent = 1
    /\ call.before = OtherMessage

\* C5: on a tick a feed is skipped by the breaker if and only if its error_count is
\* strictly greater than the threshold; an enabled feed with at most that many
\* failures is fetched, and each failed processing adds exactly 1 to the feed's
\* error_count.
C5_BreakerSkipsIffAboveThreshold ==
    [][/\ (pc = "feed" /\ fi <= Len(feeds)) =>
              /\ step'.feed = fi
              /\ (step'.kind = "tripped") <=> (error_count[fi] > error_count_disable)
              /\ (error_count[fi] <= error_count_disable /\ feeds[fi].enabled) =>
                     step'.polled
       /\ (step' # step /\ step'.kind = "raised") =>
              error_count'[step'.feed] = error_count[step'.feed] + 1
      ]_vars

\* a feed whose error_count equals a threshold of at least 1 has been fetched
C5_Witness ==
    /\ step.polled
    /\ step.kind = "no_update"
    /\ error_count_disable >= 1
    /\ error_count[step.feed] = error_count_disable

\* C6: error_count never decreases, and once it exceeds the threshold the feed is
\* not fetched in any later tick, nothing is published for it and its watermark and
\* error_count stay as they are.
C6_TrippedIsTerminal ==
    [][\A f \in Feeds :
          /\ error_count'[f] >= error_count[f]
          /\ error_count[f] > error_count_disable =>
                 /\ error_count'[f] = error_count[f]
                 /\ current_episode'[f] = current_episode[f]
                 /\ (step' # step /\ step'.feed = f) =>
                        /\ step'.kind = "tripped"
                        /\ ~step'.polled
                        /\ threads' = threads
                        /\ last_message' = last_message
      ]_vars

\* a tripped feed has been skipped by a tick
C6_Witness ==
    /\ step.kind = "tripped"
    /\ error_count[step.feed] = error_count_disable + 1
    /\ current_episode[step.feed] > 0

\* C7: within a tick the feeds are processed in configured order; an error raised
\* while processing a feed increments that feed's error_count only and the loop
\* goes on with the next feed: the run ends only after the last feed.
C7_ErrorStaysInItsFeed ==
    [][/\ (step' # step /\ step'.kind = "raised") =>
              /\ step'.feed = fi
              /\ error_count' = [error_count EXCEPT ![fi] = @ + 1]
              /\ pc' = "feed"
              /\ fi' = fi + 1
       /\ (pc # "idle" /\ pc' = "idle") => (pc = "feed" /\ fi = Len(feeds) + 1)
       /\ (pc # "idle" /\ fi' # fi) => (fi' = fi + 1 \/ pc' = "idle")
       /\ (pc = "idle" /\ pc' \notin {"idle", "stopped"}) => (pc' = "feed" /\ fi' = 1)
      ]_vars

\* the first feed raised after a platform call failed and the loop stands at the
\* second feed
C7_Witness ==
    /\ step.kind = "raised"
    /\ step.failed
    /\ step.feed = 1
    /\ pc = "feed"
    /\ fi = 2
    /\ error_count = <<1, 0>>

\* the channel pairs of a feed whose channel is a text or a forum channel
PublishTargets(f) ==
    {i \in 1..Len(get_channels(feeds[f])) :
        get_channel(get_channels(feeds[f])[i].channel) \in {"TextChannel", "ForumChannel"}}

\* the processing of a new episode is over
NewEpisodeOver == step.new /\ step.kind \in {"done", "raised"}

\* C8: for a new episode one tick creates exactly one thread with the computed title
\* in each reachable target channel and sends one announcement per target with an
\* announce channel (no platform call failing); a tick that fetches the number the
\* watermark already has gets NONE and creates, sends and announces nothing.
C8_NewEpisodePublishedOnce ==
    /\ (NewEpisodeOver /\ ~step.failed) =>
           \A i \in PublishTargets(step.feed) :
               LET pair == get_channels(feeds[step.feed])[i] IN
               /\ Cardinality({t \in step.created :
                      t.channel = pair.channel /\ t.name = step.title}) = 1
               /\ get_channel(pair.announce) = "TextChannel" => i \in step.announced
    /\ (step.polled /\ step.number = step.stored) =>
           /\ step.kind = "no_update"
           /\ step.created = {}
           /\ step.announced = {}

\* C9: when a platform call fails in the tick that detected a new episode, the
\* episode is not lost: unless the feed is tripped, a thread for it exists in each
\* target channel or the publish is still due (the gate will report it again).
C9_FailedPublishIsRetried ==
    (NewEpisodeOver /\ step.failed) =>
        \/ error_count[step.feed] > error_count_disable
        \/ current_episode[step.feed] < step.number
        \/ \A i \in PublishTargets(step.feed) :
               \E t \in threads :
                   /\ t.channel = get_channels(feeds[step.feed])[i].channel
                   /\ t.name = step.title

\* a thread with the title of the step exists in the channel of pair i, and the
\* announcement of that title is in the pair's announce channel when it has one
TargetServed(i) ==
    LET pair == get_channels(feeds[step.feed])[i] IN
    /\ \E t \in threads : t.channel = pair.channel /\ t.name = step.title
    /\ get_channel(pair.announce) = "TextChannel" =>
           \/ i \in step.announced
           \/ /\ last_message[pair.announce].kind = "announce"
              /\ last_message[pair.announce].title = step.title

\* nothing was created or announced for pair i in this step
TargetUntouched(i) ==
    LET pair == get_channels(feeds[step.feed])[i] IN
    /\ \A t \in step.created : t.channel # pair.channel
    /\ i \notin step.announced

\* C11 (as claimed): the targets of a feed are processed independently: a missing
\* channel or a platform failure while publishing to one target does not prevent the
\* thread and the announcement of the other targets in the same tick.
C11_TargetsIndependent ==
    (NewEpisodeOver /\ (step.kind = "done" \/ step.failed)) =>
        \A i \in PublishTargets(step.feed) \ {step.target} : TargetServed(i)

\* C11 (amended): a missing channel is passed over and the other targets of the
\* feed still get their thread and announcement; a platform failure while
\* publishing to one target ends the feed for this tick: the targets before it
\* keep what was published and the targets after it get nothing.
C11_FailureEndsFeedForTick ==
    /\ (NewEpisodeOver /\ step.kind = "done") =>
           \A i \in PublishTargets(step.feed) : TargetServed(i)
    /\ (NewEpisodeOver /\ step.failed) =>
           /\ step.target \in 1..Len(get_channels(feeds[step.feed]))
           /\ \A i \in PublishTargets(step.feed) :
                  /\ i < step.target => TargetServed(i)
                  /\ i > step.target => TargetUntouched(i)

\* the first target's channel is missing and the forum target got its thread
C11_Witness ==
    /\ NewEpisodeOver
    /\ step.kind = "done"
    /\ get_channel(get_channels(feeds[step.feed])[1].channel) = "None"
    /\ \E t \in step.created : t.channel = "forum" /\ t.name = step.title

\* C16: a failure of join, pin or publish after the thread was created does not
\* fail the publish: a publish call of the loop that created a thread for the
\* target never ends in the handler of the feed (the handle is returned, the
\* announcement comes next and error_count stays).
C16_SideEffectsAreBestEffort ==
    (step.kind = "raised" /\ step.at = "target") =>
        \A t \in step.created :
            t.channel # get_channels(feeds[step.feed])[step.target].channel

\* C19: a tick that fetches a document without entries fails the extraction: the
\* feed's error_count grows by exactly 1, its watermark stays, nothing is created
\* or sent for it and the loop goes on with the next feed; a feed that is enabled
\* and not above the threshold is fetched again when a tick comes to it.
C19_EmptyDocumentCountedAndRetried ==
    [][/\ (step' # step /\ step'.polled /\ step'.number = -1) =>
              /\ step'.feed = fi
              /\ step'.kind = "raised"
              /\ ~step'.new
              /\ step'.created = {} /\ step'.announced = {}
              /\ error_count' = [error_count EXCEPT ![fi] = @ + 1]
              /\ current_episode' = current_episode
              /\ threads' = threads
              /\ last_message' = last_message
              /\ pc' = "feed" /\ fi' = fi + 1
       /\ (/\ pc = "feed" /\ fi <= Len(feeds) /\ feeds[fi].enabled
           /\ error_count[fi] > 0 /\ error_count[fi] <= error_count_disable) =>
              step'.polled /\ step'.feed = fi
      ]_vars

\* a feed whose fetch had failed before was fetched again and the document had no
\* entries
C19_Witness ==
    /\ step.polled /\ step.number = -1 /\ step.kind = "raised"
    /\ error_count[step.feed] = 2
    /\ threads = {}

\* C17: shutdown is clean: the loop halts only between two runs, so a run that is
\* in flight when cog_unload is called goes through all remaining feeds and
\* targets first and no publish is cut by the cancellation.
C17_ShutdownLetsTickFinish ==
    pc = "stopped" => (fi = 0 /\ step.kind # "cancelled")

\* C20: the 'exceeded error count' warning of a feed is logged at most once over
\* all ticks.
C20_TrippedWarningOnce ==
    \A f \in Feeds : warnings[f] <= 1

C12_StartupCheckFatalOrSeeds ==
    [][/\ pc # "crashed"
       /\ (pc = "startup" /\ step' # step /\ step'.polled /\ step'.number = -1) =>
              pc' = "crashed"
       /\ (pc = "startup" /\ pc' = "startup") =>
              /\ step'.number > 0
              /\ current_episode'[fi] = step'.number
              /\ fi' = fi + 1
       /\ (pc = "startup" /\ pc' = "constructed") =>
              \A f \in Feeds : current_episode[f] > 0
       /\ (/\ pc = "feed" /\ step' # step /\ step'.polled
           /\ step'.number = current_episode[fi]) =>
              /\ step'.kind = "no_update"
              /\ threads' = threads
              /\ last_message' = last_message
              /\ current_episode' = current_episode
      ]_vars

\* the startup check seeded the first feed and found no entries for the second
C12_Witness ==
    /\ pc = "crashed"
    /\ step.feed = 2
    /\ step.number = -1
    /\ current_episode[1] > 0

\* C13: a configuration entry without channel id or without feed URL is fatal at
\* load time: get_channels_list returns no feed list for such a file.
C13_MalformedEntryIsFatal ==
    (/\ call.op = "get_channels_list"
     /\ \E i \in 1..Len(call.obj) :
            call.obj[i].channel_id = -1 \/ strip(call.obj[i].rss_url) = <<>>) =>
        call.raised

\* s occurs in t
Contains(t, s) ==
    \E i \in 0..(Len(t) - Len(s)) : SubSeq(t, i + 1, i + Len(s)) = s

\* C14: get_title with a prefix and without the raw-title override inserts the
\* episode number exactly when the title does not contain it: 12 and
\* "Episode 12: Foo" with "Show" give "Show Episode 12: Foo", and "Foo" gives
\* "Show 12: Foo".
C14_NumberInsertedUnlessContained ==
    (call.op = "get_title" /\ ~call.override_ep_number) =>
        call.ret = IF Contains(call.title, Str(call.number))
                   THEN strip(call.prefix \o <<SP>> \o call.title)
                   ELSE strip(call.prefix \o <<SP>> \o Str(call.number)
                                  \o <<COLON, SP>> \o call.title)

\* C15: without truncation get_description returns the description unchanged when
\* it has at most 2000 characters and else its first 1997 characters and "...";
\* with truncate=true it returns the text before the first double line-break of
\* the description, whatever its length.
C15_DescriptionLimitedOrCut ==
    call.op = "get_description" =>
        IF ~call.truncate
        THEN /\ ~call.raised
             /\ IF Len(call.desc) <= 2000
                THEN call.ret = call.desc
                ELSE /\ Len(call.ret) = 2000
                     /\ SubSeq(call.ret, 1, 1997) = SubSeq(call.desc, 1, 1997)
                     /\ SubSeq(call.ret, 1998, 2000) = <<DOT, DOT, DOT>>
        ELSE Breaks(call.desc) # {} =>
             /\ ~call.raised
             /\ call.ret = SubSeq(call.desc, 1, Len(call.ret))
             /\ (Len(call.ret) + 1) \in Breaks(call.desc)
             /\ \A i \in Breaks(call.desc) : i > Len(call.ret)

\* a description of 2001 characters came back with 2000, and a description whose
\* first double line-break is behind character 2000 came back longer than that
C15_Witness ==
    /\ call.op = "get_description"
    /\ \/ ~call.truncate /\ Len(call.desc) = 2001 /\ Len(call.ret) = 2000
       \/ call.truncate /\ ~call.raised /\ Len(call.ret) > 2000

\* C23: get_description with truncate=true never raises, whatever the description
\* contains, a description without a double line-break in particular.
C23_TruncateNeverRaises ==
    (call.op = "get_description" /\ call.truncate) => ~call.raised

\* C24: the thread handed to create_announcement and to the subscribers of a
\* channel pair is a thread of that pair's publish channel: no handle of an
\* earlier pair is used for a later one.
C24_ThreadOfThisTarget ==
    (pc \in {"announce", "subscribers"} /\ thread # NoThread) =>
        thread.channel = Targets[ti].channel

\* C22: error_count grows only when a fetch, an extraction or a platform call
\* fails: once the body of a feed has come to its channel pairs (an entry was
\* fetched and the embeds were built), the handler of the feed is entered only
\* after a platform call raised, also when the publish call returned None for a
\* feed with a subscriber role.
C22_ErrorCountOnlyOnFailure ==
    (step.kind = "raised" /\ step.at # "none") => step.failed

\* C25: a feed with enabled=false is never fetched and its state never changes:
\* over startup and ticks its watermark and error_count keep their initial values
\* and its document cannot end the process.
C25_DisabledFeedUntouched ==
    \A f \in Feeds :
        ~feeds[f].enabled =>
            /\ current_episode[f] = 0
            /\ error_count[f] = 0
            /\ ~(step.polled /\ step.feed = f)
            /\ ~(pc = "crashed" /\ fi = f)

\* C21: once the bot is ready and the cog is constructed (the startup check
\* succeeded for every feed), on_ready arms the loop: after on_ready the loop is
\* started, so that ticks run.
C21_ReadyArmsLoop ==
    step.kind = "ready" => pc = "idle"

====
